---------------------------- MODULE Spec2Model ----------------------------
(***************************************************************************)
(* Model of the ride dispatch simulator (src/src/ride.cc holds both the    *)
(* Ride class and main; src/include/min_heap.h holds the event scheduler). *)
(*                                                                         *)
(* Representation choices, all exact on the input domain used here:        *)
(*  - coordinates are integers; the program stores a coordinate as the     *)
(*    text "x y" (std::to_string prints six decimals) and parses it back,  *)
(*    which is exact for integer-valued inputs, so a coordinate string is  *)
(*    the pair <<x, y>>;                                                   *)
(*  - the input points are chosen so that every Euclidean distance is an   *)
(*    even integer and every distance / speed is an integer: doubles then  *)
(*    carry the exact values and Sqrt is the exact root (it is undefined   *)
(*    on a non-square, so an inexact case cannot pass silently);           *)
(*  - the efficiency, a quotient of two such integers, is kept as the      *)
(*    fraction [num, den] and compared by cross multiplication;            *)
(*  - a pointer to a Request is its 1-based position in all_requests, a    *)
(*    pointer to a Ride its 1-based position in completed_rides; 0 is the  *)
(*    null pointer.                                                        *)
(*  - in a well-formed input the request identifiers are pairwise         *)
(*    distinct, as the input format requires (src/README.md:74); cin_fail  *)
(*    is the fail state of std::cin, which only SpecMalformed ever sets.   *)
(***************************************************************************)
EXTENDS Integers, Sequences, FiniteSets, TLC

VARIABLES cin_fail, params, num_requests, all_requests, pc, i, r,
          completed_rides, k, event_queue, current_time, output, trace,
          memory

vars == <<cin_fail, params, num_requests, all_requests, pc, i, r,
          completed_rides, k, event_queue, current_time, output, trace,
          memory>>

-----------------------------------------------------------------------------
(* Bounds of the model *)

MaxReq == 3

MaxHeapSize == 4

MaxTime == 2

-----------------------------------------------------------------------------
(* Input domain *)

Points == {<<0, 0>>, <<6, 8>>}

OriginPoints == Points

DestPoints == Points

RequestTimes == {0, 2}

CapacityChoices == {0, 2, 3}

SpeedChoices == {0, 2}

(* the three thresholds of the header: all lenient, or exactly one strict.  *)
(* Request times differ by 0 or 2, points lie 0 or 10 apart, and a shared  *)
(* route has efficiency 0, 1/2, 1 or more.                                 *)
ThresholdChoices ==
    {[max_delay |-> 2, max_distance |-> 10, min_efficiency |-> [num |-> 0, den |-> 1]],
     [max_delay |-> 1, max_distance |-> 10, min_efficiency |-> [num |-> 0, den |-> 1]],
     [max_delay |-> 2, max_distance |-> 8, min_efficiency |-> [num |-> 0, den |-> 1]],
     [max_delay |-> 2, max_distance |-> 10, min_efficiency |-> [num |-> 1, den |-> 1]]}

MaxWaitTimeChoices == {100}

-----------------------------------------------------------------------------
(* Numeric helpers *)

Abs(n) == IF n < 0 THEN -n ELSE n

Pow2(n) == n * n

(* std::sqrt on the perfect squares of this model, tabulated once; a value  *)
(* that is no perfect square has no entry: using one stops the evaluation   *)
SquareRoots == {<<root * root, root>> : root \in 0..20}

SqrtTable ==
    [n \in {sq[1] : sq \in SquareRoots} |->
        CHOOSE root \in 0..20 : <<n, root>> \in SquareRoots]

Sqrt(n) == SqrtTable[n]

(* a / b on doubles, for the exactly divisible operands of this model; an  *)
(* inexact quotient has no value here: using one stops the evaluation      *)
Div(a, b) == IF a % b = 0 THEN a \div b ELSE CHOOSE q \in {} : TRUE

(* double: every number of this model is an integer. A double holds each   *)
(* integer up to 2^53 exactly; from 2^53 to 2^54 it holds the even integers *)
(* only, and a result is rounded to the nearest of them, a tie going to the *)
(* one whose significand is even (a multiple of 4). The integers of TLC are *)
(* 32 bits wide, so the double 2^53 + d is written Large + d: Large stands  *)
(* for 2^53, and no number of the model lies between the small ones and it. *)
Large == 1000000

RoundToDouble(v) ==
    IF v <= Large THEN v
    ELSE IF (v - Large) % 2 = 0 THEN v
    ELSE IF (v - Large + 1) % 4 = 0 THEN v + 1
    ELSE v - 1

(* a + b on doubles *)
DoubleAdd(a, b) == RoundToDouble(a + b)

(* the element of a one-element set: {F(v) : v \in {e}} computes e once and *)
(* names its value v, where a LET would compute e at every use of the name *)
TheOne(S) == CHOOSE v \in S : TRUE

RatLess(a, b) == a.num * b.den < b.num * a.den

RatGeq(a, b) == ~RatLess(a, b)

Zero == [num |-> 0, den |-> 1]

-----------------------------------------------------------------------------
(* Coordinates: main's to_string pair, ParseCoord, CalculateDistance, and  *)
(* ride.cc's calcDist                                                      *)

CoordString(x, y) == <<x, y>>

ParseCoord(coord) == [x |-> coord[1], y |-> coord[2]]

CalculateDistance(x1, y1, x2, y2) == Sqrt(Pow2(x2 - x1) + Pow2(y2 - y1))

calcDist(c1, c2) ==
    LET p1 == ParseCoord(c1)
        p2 == ParseCoord(c2)
    IN  Sqrt(Pow2(p2.x - p1.x) + Pow2(p2.y - p1.y))

-----------------------------------------------------------------------------
(* Request, Stop, Segment *)

NewRequest(id, time, origin, dest) ==
    [id |-> id, request_time |-> time, origin |-> origin, destination |-> dest,
     state |-> "kRequested", associated_ride |-> 0]

NewStop(coord, t, pid) == [coordinate |-> coord, type |-> t, passenger_id |-> pid]

NewSegment(s, e, dist, t, seg_type) ==
    [start |-> s, end |-> e, distance |-> dist, time |-> t, type |-> seg_type]

-----------------------------------------------------------------------------
(* Ride *)

NewRide == [requests |-> <<>>, segments |-> <<>>, total_distance |-> 0,
            total_duration |-> 0, efficiency |-> Zero]

NoRide == [requests |-> <<>>, segments |-> <<>>, total_distance |-> -1,
           total_duration |-> -1, efficiency |-> Zero]

AddRequest(ride, request) == [ride EXCEPT !.requests = Append(@, request)]

AddSegment(ride, segment) ==
    [ride EXCEPT !.segments = Append(@, segment),
                 !.total_distance = DoubleAdd(@, segment.distance),
                 !.total_duration = DoubleAdd(@, segment.time)]

RECURSIVE SumDirect(_, _, _)
SumDirect(reqs, members, n) ==
    IF n = 0 THEN 0
    ELSE SumDirect(reqs, members, n - 1)
         + calcDist(reqs[members[n]].origin, reqs[members[n]].destination)

(* mutant: the quotient is formed without the test for a zero distance *)
CalculateEfficiencyAlwaysDivides(reqs, ride) ==
    [ride EXCEPT !.efficiency =
        [num |-> SumDirect(reqs, ride.requests, Len(ride.requests)),
         den |-> ride.total_distance]]

CalculateEfficiency(reqs, ride) ==
    IF ride.total_distance = 0
    THEN [ride EXCEPT !.efficiency = Zero]
    ELSE [ride EXCEPT !.efficiency =
              [num |-> SumDirect(reqs, ride.requests, Len(ride.requests)),
               den |-> ride.total_distance]]

(* mutant: each request's pickup is followed at once by its dropoff *)
RouteStopsInterleaved(reqs, members) ==
    [j \in 1..(2 * Len(members)) |->
        IF j % 2 = 1
        THEN NewStop(reqs[members[(j + 1) \div 2]].origin, "PICKUP",
                     reqs[members[(j + 1) \div 2]].id)
        ELSE NewStop(reqs[members[j \div 2]].destination, "DROPOFF",
                     reqs[members[j \div 2]].id)]

(* mutant: the dropoffs are made in the reverse of the membership order *)
RouteStopsDropoffsReversed(reqs, members) ==
    [j \in 1..Len(members) |->
        NewStop(reqs[members[j]].origin, "PICKUP", reqs[members[j]].id)]
    \o
    [j \in 1..Len(members) |->
        NewStop(reqs[members[Len(members) + 1 - j]].destination, "DROPOFF",
                reqs[members[Len(members) + 1 - j]].id)]

(* the stops built by UpdateRoute: pickups, then dropoffs *)
RouteStops(reqs, members) ==
    [j \in 1..Len(members) |->
        NewStop(reqs[members[j]].origin, "PICKUP", reqs[members[j]].id)]
    \o
    [j \in 1..Len(members) |->
        NewStop(reqs[members[j]].destination, "DROPOFF", reqs[members[j]].id)]

SegmentTypeOf(start, end) ==
    IF start.type = "PICKUP" /\ end.type = "PICKUP" THEN "PICKUP_SEGMENT"
    ELSE IF start.type = "DROPOFF" /\ end.type = "DROPOFF" THEN "DROPOFF_SEGMENT"
    ELSE "DISPLACEMENT_SEGMENT"

(* mutant: the distance is multiplied by the speed, not divided by it *)
SegmentBetweenTimesSpeed(start, end, speed) ==
    TheOne({NewSegment(start, end, dist,
                       IF speed > 0 THEN dist * speed ELSE 0,
                       SegmentTypeOf(start, end)) :
               dist \in {calcDist(start.coordinate, end.coordinate)}})

(* mutant: at a speed <= 0 the time of a segment is its distance *)
SegmentBetweenTimedAtRest(start, end, speed) ==
    TheOne({NewSegment(start, end, dist,
                       IF speed > 0 THEN Div(dist, speed) ELSE dist,
                       SegmentTypeOf(start, end)) :
               dist \in {calcDist(start.coordinate, end.coordinate)}})

SegmentBetween(start, end, speed) ==
    TheOne({NewSegment(start, end, dist,
                       IF speed > 0 THEN Div(dist, speed) ELSE 0,
                       SegmentTypeOf(start, end)) :
               dist \in {calcDist(start.coordinate, end.coordinate)}})

(* mutant: the segment loop stops one stop early *)
RouteSegmentCountShort(stops) == Len(stops) - 2

(* number of segments the loop of UpdateRoute creates: stops.size() - 1 *)
RouteSegmentCount(stops) == Len(stops) - 1

RECURSIVE AddSegments(_, _, _, _)
AddSegments(ride, stops, speed, n) ==
    IF n = 0 THEN ride
    ELSE TheOne({AddSegment(AddSegments(ride, stops, speed, n - 1), segment) :
                    segment \in {SegmentBetween(stops[n], stops[n + 1], speed)}})

(* mutant: the totals are reset but the segments of the last build stay *)
ClearRouteKeepsSegments(ride) ==
    [ride EXCEPT !.total_distance = 0, !.total_duration = 0]

(* the segments cleared and the totals reset, at the head of UpdateRoute *)
ClearRoute(ride) ==
    [ride EXCEPT !.segments = <<>>, !.total_distance = 0, !.total_duration = 0]

(* the segment loop over the stops, then CalculateEfficiency *)
RouteOver(reqs, cleared, stops, speed) ==
    TheOne({CalculateEfficiency(reqs, summed) :
               summed \in {AddSegments(cleared, stops, speed,
                                       RouteSegmentCount(stops))}})

UpdateRoute(reqs, ride, speed) ==
    TheOne({IF cleared.requests = <<>> THEN cleared
            ELSE TheOne({RouteOver(reqs, cleared, stops, speed) :
                            stops \in {RouteStops(reqs, cleared.requests)}})
            : cleared \in {ClearRoute(ride)}})

GetDemandCount(ride) == Len(ride.requests)

(* mutant: the identifier of the last member is returned for every index *)
GetDemandIdOfLast(reqs, ride, index) ==
    IF index >= 0 /\ index < Len(ride.requests)
    THEN reqs[ride.requests[Len(ride.requests)]].id
    ELSE ""

GetDemandId(reqs, ride, index) ==
    IF index >= 0 /\ index < Len(ride.requests)
    THEN reqs[ride.requests[index + 1]].id
    ELSE ""

GetSegmentCount(ride) == Len(ride.segments)

GetSegment(ride, index) ==
    IF index >= 0 /\ index < Len(ride.segments)
    THEN ride.segments[index + 1]
    ELSE "nullptr"


-----------------------------------------------------------------------------
(* MinHeap<Event>: heap_ is a sequence; position p of the code is p + 1 here *)

NewEvent(time, ride, stop_index) ==
    [time |-> time, type |-> 0, ride |-> ride, stop_index |-> stop_index]

(* mutant: the comparison of two events is reversed *)
EventLessReversed(a, b) == a.time > b.time

(* mutant: of two events of equal time the one of the earlier ride is less *)
EventLessTiesByRide(a, b) ==
    IF a.time = b.time THEN a.ride < b.ride ELSE a.time < b.time

(* Event::operator< *)
EventLess(a, b) == a.time < b.time

Swap(heap, a, b) == [heap EXCEPT ![a + 1] = heap[b + 1], ![b + 1] = heap[a + 1]]

(* mutant: one swap with the parent, without moving further up *)
HeapifyUpOnce(heap, index) ==
    IF index = 0 THEN heap
    ELSE LET parent_index == (index - 1) \div 2
         IN  IF EventLess(heap[index + 1], heap[parent_index + 1])
             THEN Swap(heap, index, parent_index)
             ELSE heap

RECURSIVE HeapifyUp(_, _)
HeapifyUp(heap, index) ==
    IF index = 0 THEN heap
    ELSE LET parent_index == (index - 1) \div 2
         IN  IF EventLess(heap[index + 1], heap[parent_index + 1])
             THEN HeapifyUp(Swap(heap, index, parent_index), parent_index)
             ELSE heap

(* mutant: the right child is compared with the parent, not with the      *)
(* smaller of parent and left child                                        *)
SmallestAgainstParent(heap, index) ==
    LET left_child == 2 * index + 1
        right_child == 2 * index + 2
        s1 == IF left_child < Len(heap)
                 /\ EventLess(heap[left_child + 1], heap[index + 1])
              THEN left_child ELSE index
    IN  IF right_child < Len(heap)
           /\ EventLess(heap[right_child + 1], heap[index + 1])
        THEN right_child ELSE s1

(* the index HeapifyDown swaps with: the smaller child if it is smaller *)
Smallest(heap, index) ==
    LET left_child == 2 * index + 1
        right_child == 2 * index + 2
        s1 == IF left_child < Len(heap)
                 /\ EventLess(heap[left_child + 1], heap[index + 1])
              THEN left_child ELSE index
    IN  IF right_child < Len(heap)
           /\ EventLess(heap[right_child + 1], heap[s1 + 1])
        THEN right_child ELSE s1

RECURSIVE HeapifyDown(_, _)
HeapifyDown(heap, index) ==
    LET smallest == Smallest(heap, index)
    IN  IF smallest # index
        THEN HeapifyDown(Swap(heap, index, smallest), smallest)
        ELSE heap

(* mutant: the value is inserted twice *)
pushTwice(heap, value) ==
    HeapifyUp(Append(HeapifyUp(Append(heap, value), Len(heap)), value),
              Len(heap) + 1)

push(heap, value) == HeapifyUp(Append(heap, value), Len(heap))

(* mutant: the last element is copied to the root but not removed *)
popKeepsLast(heap) ==
    IF heap = <<>> THEN heap
    ELSE HeapifyDown([heap EXCEPT ![1] = heap[Len(heap)]], 0)

(* mutant: a heap of one element is left as it is *)
popKeepsSole(heap) ==
    IF Len(heap) <= 1 THEN heap
    ELSE HeapifyDown(SubSeq([heap EXCEPT ![1] = heap[Len(heap)]], 1, Len(heap) - 1), 0)

pop(heap) ==
    IF heap = <<>> THEN heap
    ELSE LET moved == [heap EXCEPT ![1] = heap[Len(heap)]]
             shrunk == SubSeq(moved, 1, Len(heap) - 1)
         IN  IF shrunk # <<>> THEN HeapifyDown(shrunk, 0) ELSE shrunk

top(heap) == IF heap = <<>> THEN "out_of_range" ELSE heap[1]

empty(heap) == heap = <<>>

size(heap) == Len(heap)


-----------------------------------------------------------------------------
(* main: input *)

IdNames == <<"A", "B", "C", "D", "E">>

RequestChoices ==
    {[time |-> t, origin |-> o, dest |-> d] :
        t \in RequestTimes, o \in OriginPoints, d \in DestPoints}

(* the Request built from one input line, the j-th of the input *)
RequestOfLine(j, line) ==
    NewRequest(IdNames[j], line.time,
               CoordString(line.origin[1], line.origin[2]),
               CoordString(line.dest[1], line.dest[2]))

SimulationParams ==
    {[capacity |-> c, speed |-> s, max_wait_time |-> w,
      max_delay |-> t.max_delay, max_distance |-> t.max_distance,
      min_efficiency |-> t.min_efficiency] :
        c \in CapacityChoices, s \in SpeedChoices, w \in MaxWaitTimeChoices,
        t \in ThresholdChoices}

(* The free store: the Segment and Stop objects made by new.               *)
(* segments[a] is the Segment allocated a-th, with the ride it was built   *)
(* for (0 is temp_ride), the number of the build that made it and the      *)
(* number of times it was deleted; held[n] is segments_ of ride n; stops   *)
(* is the number of Stop objects allocated and not deleted; stale is set   *)
(* when a deleted Segment is read.                                         *)

NoMemory == [segments |-> <<>>, held |-> <<>>, builds |-> 0, stops |-> 0,
             stale |-> FALSE]

(* first_run: the rides and the output of a run that was made before on   *)
(* the same requests, once there was one                                   *)
NoRun == [made |-> FALSE, rides |-> <<>>, output |-> <<>>]

NoTrace == [pops |-> 0, pushes |-> 0, prev_pop |-> -1, last_pop |-> -1,
            sorted |-> TRUE, early_push |-> FALSE, first_run |-> NoRun]

NoParams == [capacity |-> 0, speed |-> 0, max_wait_time |-> 0, max_delay |-> 0,
             max_distance |-> 0, min_efficiency |-> Zero]

Init ==
    /\ cin_fail = FALSE
    /\ params = NoParams
    /\ num_requests = 0
    /\ all_requests = <<>>
    /\ pc = "header"
    /\ i = 0
    /\ r = NoRide
    /\ completed_rides = <<>>
    /\ k = 0
    /\ event_queue = <<>>
    /\ current_time = 0
    /\ output = <<>>
    /\ trace = NoTrace
    /\ memory = NoMemory

(* the six fields of the header line, one of the headers in `headers` *)
ReadHeaderFrom(headers) ==
    /\ pc = "header"
    /\ params' \in headers
    /\ pc' = "count"
    /\ UNCHANGED <<cin_fail, memory, num_requests, all_requests, i, r, completed_rides, k,
                   event_queue, current_time, output, trace>>

ReadHeader == ReadHeaderFrom(SimulationParams)

ReadCount ==
    /\ pc = "count"
    /\ ~cin_fail
    /\ num_requests' \in 0..MaxReq
    /\ pc' = "requests"
    /\ UNCHANGED <<cin_fail, memory, params, all_requests, i, r, completed_rides, k,
                   event_queue, current_time, output, trace>>

(* one iteration of the input loop, on one of the lines in `lines` *)
ReadRequestFrom(lines) ==
    /\ pc = "requests"
    /\ ~cin_fail
    /\ Len(all_requests) < num_requests
    /\ \E line \in lines :
           all_requests' =
               Append(all_requests, RequestOfLine(Len(all_requests) + 1, line))
    /\ UNCHANGED <<cin_fail, memory, params, num_requests, pc, i, r, completed_rides, k,
                   event_queue, current_time, output, trace>>

ReadRequest == ReadRequestFrom(RequestChoices)

(* the extraction of a header field fails: main returns 0 at once. The     *)
(* fields read before the failing one are locals that die with the return. *)
HeaderFailsIgnored ==
    /\ pc = "header"
    /\ cin_fail' = TRUE
    /\ pc' = "count"
    /\ UNCHANGED <<memory, params, num_requests, all_requests, i, r, completed_rides, k,
                   event_queue, current_time, output, trace>>

HeaderFails ==
    /\ pc = "header"
    /\ cin_fail' = TRUE
    /\ pc' = "done"
    /\ UNCHANGED <<memory, params, num_requests, all_requests, i, r, completed_rides, k,
                   event_queue, current_time, output, trace>>

(* std::cin >> num_requests fails, and main goes on: a malformed count is  *)
(* stored as 0; at the end of the input nothing is stored and num_requests *)
(* keeps the indeterminate value of an uninitialized int.                  *)
CountFails ==
    /\ pc = "count"
    /\ cin_fail' = TRUE
    /\ num_requests' \in -1..MaxReq
    /\ pc' = "requests"
    /\ UNCHANGED <<memory, params, all_requests, i, r, completed_rides, k,
                   event_queue, current_time, output, trace>>

(* an iteration of the input loop whose extractions fail, now or since an  *)
(* earlier failure: the Request is built and stored all the same. id is "" *)
(* unless it was read before the failing field; a numeric field keeps the  *)
(* value read before the failure, 0 for the failing field itself, or the   *)
(* indeterminate value of an uninitialized local.                          *)
RequestFailsWith(values) ==
    /\ pc = "requests"
    /\ Len(all_requests) < num_requests
    /\ cin_fail' = TRUE
    /\ \E id \in IF cin_fail THEN {""} ELSE {"", IdNames[Len(all_requests) + 1]} :
       \E v \in values :
           all_requests' =
               Append(all_requests,
                      NewRequest(id, v.time,
                                 CoordString(v.origin[1], v.origin[2]),
                                 CoordString(v.dest[1], v.dest[2])))
    /\ UNCHANGED <<memory, params, num_requests, pc, i, r, completed_rides, k,
                   event_queue, current_time, output, trace>>

(* input loop left: Phase 1 begins with i = 0 *)
BeginGrouping ==
    /\ pc = "requests"
    /\ Len(all_requests) >= num_requests
    /\ pc' = "group"
    /\ i' = 0
    /\ UNCHANGED <<cin_fail, memory, params, num_requests, all_requests, r, completed_rides, k,
                   event_queue, current_time, output, trace>>

-----------------------------------------------------------------------------
(* main, Phase 1: the admission checks of the inner loop *)

(* the linear scan for a request by its identifier; 0 when none matches *)
FindById(reqs, id) ==
    IF \E x \in 1..Len(reqs) : reqs[x].id = id
    THEN CHOOSE x \in 1..Len(reqs) :
             /\ reqs[x].id = id
             /\ \A y \in 1..(x - 1) : reqs[y].id # id
    ELSE 0

(* mutant: a full ride still admits one more request *)
CapacityOkOffByOne(p, ride) == ~(GetDemandCount(ride) > p.capacity)

CapacityOk(p, ride) == ~(GetDemandCount(ride) >= p.capacity)

(* mutant: only the origins are compared *)
ProximityOkOriginsOnly(p, reqs, ride, next_req) ==
    LET req_o == ParseCoord(reqs[next_req].origin)
    IN  \A m \in 0..(GetDemandCount(ride) - 1) :
            LET other_req == FindById(reqs, GetDemandId(reqs, ride, m))
                other_o == ParseCoord(reqs[other_req].origin)
            IN  ~(CalculateDistance(req_o.x, req_o.y, other_o.x, other_o.y)
                      > p.max_distance)

(* mutant: a distance equal to max_distance is refused *)
ProximityOkExclusive(p, reqs, ride, next_req) ==
    LET req_o == ParseCoord(reqs[next_req].origin)
        req_d == ParseCoord(reqs[next_req].destination)
    IN  \A m \in 0..(GetDemandCount(ride) - 1) :
            LET other_req == FindById(reqs, GetDemandId(reqs, ride, m))
                other_o == ParseCoord(reqs[other_req].origin)
                other_d == ParseCoord(reqs[other_req].destination)
            IN  ~(\/ CalculateDistance(req_o.x, req_o.y, other_o.x, other_o.y)
                         >= p.max_distance
                  \/ CalculateDistance(req_d.x, req_d.y, other_d.x, other_d.y)
                         >= p.max_distance)

ProximityOk(p, reqs, ride, next_req) ==
    LET req_o == ParseCoord(reqs[next_req].origin)
        req_d == ParseCoord(reqs[next_req].destination)
    IN  \A m \in 0..(GetDemandCount(ride) - 1) :
            LET other_req == FindById(reqs, GetDemandId(reqs, ride, m))
                other_o == ParseCoord(reqs[other_req].origin)
                other_d == ParseCoord(reqs[other_req].destination)
            IN  ~(\/ CalculateDistance(req_o.x, req_o.y, other_o.x, other_o.y)
                         > p.max_distance
                  \/ CalculateDistance(req_d.x, req_d.y, other_d.x, other_d.y)
                         > p.max_distance)

RECURSIVE TempMembers(_, _, _)
TempMembers(reqs, ride, n) ==
    IF n = 0 THEN <<>>
    ELSE LET found == FindById(reqs, GetDemandId(reqs, ride, n - 1))
         IN  IF found # 0
             THEN Append(TempMembers(reqs, ride, n - 1), found)
             ELSE TempMembers(reqs, ride, n - 1)

(* temp_ride after UpdateRoute: the current members plus the candidate *)
TempRide(p, reqs, ride, next_req) ==
    UpdateRoute(reqs,
                AddRequest([NewRide EXCEPT !.requests =
                                TempMembers(reqs, ride, GetDemandCount(ride))],
                           next_req),
                p.speed)

(* mutant: the efficiency of the ride without the candidate is tested *)
EfficiencyOkOfCurrentRide(p, reqs, ride, next_req) ==
    ~RatLess(ride.efficiency, p.min_efficiency)

EfficiencyOk(p, reqs, ride, next_req) ==
    TheOne({~RatLess(temp_ride.efficiency, p.min_efficiency) :
               temp_ride \in {TempRide(p, reqs, ride, next_req)}})

(* mutant: the difference of the timestamps is taken without std::abs *)
DelayOkSigned(p, reqs, ride, next_req) ==
    LET first_req == FindById(reqs, GetDemandId(reqs, ride, 0))
    IN  ~(reqs[next_req].request_time - reqs[first_req].request_time
              > p.max_delay)

(* mutant: the timestamps are compared with max_wait_time *)
DelayOkByWaitTime(p, reqs, ride, next_req) ==
    LET first_req == FindById(reqs, GetDemandId(reqs, ride, 0))
    IN  ~(Abs(reqs[next_req].request_time - reqs[first_req].request_time)
              > p.max_wait_time)

DelayOk(p, reqs, ride, next_req) ==
    LET first_req == FindById(reqs, GetDemandId(reqs, ride, 0))
    IN  ~(Abs(reqs[next_req].request_time - reqs[first_req].request_time)
              > p.max_delay)

AdmitOk(p, reqs, ride, next_req) ==
    /\ CapacityOk(p, ride)
    /\ ProximityOk(p, reqs, ride, next_req)
    /\ EfficiencyOk(p, reqs, ride, next_req)
    /\ DelayOk(p, reqs, ride, next_req)

-----------------------------------------------------------------------------
(* The free store: what main and Ride do to the record of NoMemory *)

(* new Segment, count times in one build for ride owner *)
Allocate(m, owner, count) ==
    TheOne({[store EXCEPT !.segments =
                 @ \o [j \in 1..count |->
                          [owner |-> owner, build |-> store.builds + 1,
                           released |-> 0]],
                          !.builds = @ + 1] :
               store \in {m}})

(* the addresses of the segments of the build that makes ride built in m *)
NewAddresses(m, built) ==
    [j \in 1..GetSegmentCount(built) |-> Len(m.segments) + j]

(* mutant: the segments of the last build are not deleted *)
ReleaseNothing(m, addresses) == m

(* delete segments_[i] for each i *)
Release(m, addresses) ==
    TheOne({[store EXCEPT !.segments =
                 [a \in 1..Len(store.segments) |->
                     IF \E j \in 1..Len(deleted) : deleted[j] = a
                     THEN [store.segments[a] EXCEPT !.released = @ + 1]
                     ELSE store.segments[a]]] :
               store \in {m}, deleted \in {addresses}})

(* new Ride(): segments_ is empty *)
MemNewRide(m) == [m EXCEPT !.held = Append(@, <<>>)]

(* Ride::UpdateRoute of ride n, which leaves it as built: the segments     *)
(* held are deleted; new Stop for each pickup and dropoff and new Segment  *)
(* for each pair of neighbours; no Stop is deleted                         *)
MemUpdateRoute(m, n, built) ==
    TheOne({IF GetDemandCount(ride) = 0
            THEN [Release(store, store.held[n]) EXCEPT !.held[n] = <<>>]
            ELSE [Allocate(Release(store, store.held[n]), n, GetSegmentCount(ride))
                     EXCEPT !.held[n] = NewAddresses(store, ride),
                            !.stops = @ + 2 * GetDemandCount(ride)] :
               store \in {m}, ride \in {built}})

(* temp_ride.UpdateRoute: its segments_ was empty *)
MemTempUpdateRoute(m, temp_ride) ==
    [Allocate(m, 0, GetSegmentCount(temp_ride))
        EXCEPT !.stops = @ + 2 * GetDemandCount(temp_ride)]

(* Ride::~Ride of ride n *)
MemDeleteRide(m, n) ==
    TheOne({[Release(store, store.held[n]) EXCEPT !.held[n] = <<>>] :
               store \in {m}})

(* main, cleanup: delete completed_rides[k] for each k *)
RECURSIVE Cleanup(_, _)
Cleanup(m, n) ==
    IF n = 0 THEN m ELSE MemDeleteRide(Cleanup(m, n - 1), n)

(* the segments read when event e is handled: GetSegment(e.stop_index),    *)
(* or every segment of the ride when its route is printed                  *)
ReadSegments(m, rides, e) ==
    LET addresses == IF e.stop_index < GetSegmentCount(rides[e.ride])
                     THEN <<m.held[e.ride][e.stop_index + 1]>>
                     ELSE m.held[e.ride]
    IN  [m EXCEPT !.stale = @ \/ \E j \in 1..Len(addresses) :
                                    m.segments[addresses[j]].released > 0]

(* temp_ride built, the ride rebuilt when next_req is admitted, and        *)
(* temp_ride destroyed                                                     *)
MemTempScope(m, n, temp_ride, rebuilt, admitted) ==
    TheOne({Release(IF admitted THEN MemUpdateRoute(built, n, rebuilt) ELSE built,
                    NewAddresses(m, temp_ride)) :
               built \in {MemTempUpdateRoute(m, temp_ride)}})

(* the free store after the inner loop body that tries next_req: temp_ride *)
(* is declared once the capacity and proximity checks have passed and is   *)
(* destroyed when the body is left, by break or at its end                 *)
MemAfterTry(m, p, reqs, ride, next_req, admitted) ==
    IF ~CapacityOk(p, ride) THEN m
    ELSE IF ~ProximityOk(p, reqs, ride, next_req) THEN m
    ELSE TheOne({MemTempScope(store, Len(store.held), temp_ride,
                     UpdateRoute(reqs, AddRequest(ride, next_req), p.speed),
                     admitted) :
                    store \in {m},
                    temp_ride \in {TempRide(p, reqs, ride, next_req)}})

-----------------------------------------------------------------------------
(* main, Phase 1: greedy grouping *)

(* outer loop: a new ride seeded with all_requests[i] *)
StartRide ==
    /\ pc = "group"
    /\ r = NoRide
    /\ i < Len(all_requests)
    /\ r' = UpdateRoute(all_requests, AddRequest(NewRide, i + 1), params.speed)
    /\ memory' = MemUpdateRoute(MemNewRide(memory), Len(memory.held) + 1, r')
    /\ i' = i + 1
    /\ UNCHANGED <<cin_fail, params, num_requests, all_requests, pc, completed_rides, k, event_queue,
                   current_time, output, trace>>

(* mutant: a candidate that fails a check is passed over and the request *)
(* after it is tried against the same ride                               *)
AdmitRequestTriesLater ==
    /\ pc = "group"
    /\ r # NoRide
    /\ i < Len(all_requests)
    /\ IF AdmitOk(params, all_requests, r, i + 1)
       THEN /\ r' = UpdateRoute(all_requests, AddRequest(r, i + 1), params.speed)
            /\ memory' = MemAfterTry(memory, params, all_requests, r, i + 1, TRUE)
            /\ i' = i + 1
       ELSE /\ i + 1 < Len(all_requests)
            /\ AdmitOk(params, all_requests, r, i + 2)
            /\ r' = UpdateRoute(all_requests, AddRequest(r, i + 2), params.speed)
            /\ memory' = MemAfterTry(MemAfterTry(memory, params, all_requests, r,
                                                 i + 1, FALSE),
                                     params, all_requests, r, i + 2, TRUE)
            /\ i' = i + 2
    /\ UNCHANGED <<cin_fail, params, num_requests, all_requests, pc, completed_rides,
                   k, event_queue, current_time, output, trace>>

(* inner loop, all four constraints passed: the candidate joins the ride *)
AdmitRequest ==
    /\ pc = "group"
    /\ r # NoRide
    /\ i < Len(all_requests)
    /\ AdmitOk(params, all_requests, r, i + 1)
    /\ r' = UpdateRoute(all_requests, AddRequest(r, i + 1), params.speed)
    /\ memory' = MemAfterTry(memory, params, all_requests, r, i + 1, TRUE)
    /\ i' = i + 1
    /\ UNCHANGED <<cin_fail, params, num_requests, all_requests, pc, completed_rides, k, event_queue,
                   current_time, output, trace>>

(* mutant: the request that failed a check is skipped, not kept as seed *)
CloseRideSkipsCandidate ==
    /\ pc = "group"
    /\ r # NoRide
    /\ IF i < Len(all_requests)
       THEN ~AdmitOk(params, all_requests, r, i + 1)
       ELSE TRUE
    /\ completed_rides' = Append(completed_rides, r)
    /\ r' = NoRide
    /\ i' = IF i < Len(all_requests) THEN i + 1 ELSE i
    /\ memory' = IF i < Len(all_requests)
                 THEN MemAfterTry(memory, params, all_requests, r, i + 1, FALSE)
                 ELSE memory
    /\ UNCHANGED <<cin_fail, params, num_requests, all_requests, pc, k, event_queue,
                   current_time, output, trace>>

(* inner loop left (a break, or no request remains): the ride is stored *)
CloseRide ==
    /\ pc = "group"
    /\ r # NoRide
    /\ IF i < Len(all_requests)
       THEN ~AdmitOk(params, all_requests, r, i + 1)
       ELSE TRUE
    /\ completed_rides' = Append(completed_rides, r)
    /\ r' = NoRide
    /\ memory' = IF i < Len(all_requests)
                 THEN MemAfterTry(memory, params, all_requests, r, i + 1, FALSE)
                 ELSE memory
    /\ UNCHANGED <<cin_fail, params, num_requests, all_requests, pc, i, k, event_queue, current_time,
                   output, trace>>

(* outer loop left: Phase 2 begins *)
EndGrouping ==
    /\ pc = "group"
    /\ r = NoRide
    /\ i >= Len(all_requests)
    /\ pc' = "schedule"
    /\ k' = 0
    /\ UNCHANGED <<cin_fail, memory, params, num_requests, all_requests, i, r, completed_rides, event_queue,
                   current_time, output, trace>>

-----------------------------------------------------------------------------
(* history kept for the properties: pushes and pops of the scheduler *)

TracePush(tr, e) ==
    [tr EXCEPT !.pushes = @ + 1,
               !.early_push = @ \/ (tr.last_pop # -1 /\ e.time < tr.last_pop)]

TracePop(tr, e) ==
    [tr EXCEPT !.pops = @ + 1,
               !.prev_pop = tr.last_pop,
               !.last_pop = e.time,
               !.sorted = @ /\ (tr.last_pop = -1 \/ tr.last_pop <= e.time)]

-----------------------------------------------------------------------------
(* main, Phase 2: one start event per formed ride *)

ScheduleRide ==
    /\ pc = "schedule"
    /\ k < Len(completed_rides)
    /\ LET ride == completed_rides[k + 1]
           first_req == FindById(all_requests, GetDemandId(all_requests, ride, 0))
           e == NewEvent(RoundToDouble(all_requests[first_req].request_time),
                         k + 1, 0)
       IN  /\ event_queue' = push(event_queue, e)
           /\ trace' = TracePush(trace, e)
    /\ k' = k + 1
    /\ UNCHANGED <<cin_fail, memory, params, num_requests, all_requests, pc, i, r, completed_rides,
                   current_time, output>>

BeginSimulation ==
    /\ pc = "schedule"
    /\ k >= Len(completed_rides)
    /\ pc' = "simulate"
    /\ current_time' = 0
    /\ UNCHANGED <<cin_fail, memory, params, num_requests, all_requests, i, r, completed_rides, k, event_queue,
                   output, trace>>

-----------------------------------------------------------------------------
(* main, Phase 3: the simulation loop *)

(* the coordinates printed for a finished ride *)
RoutePath(ride) ==
    IF GetSegmentCount(ride) = 0 THEN <<>>
    ELSE <<ParseCoord(GetSegment(ride, 0).start.coordinate)>>
         \o [j \in 1..GetSegmentCount(ride) |->
                ParseCoord(GetSegment(ride, j - 1).end.coordinate)]

(* the output line of a finished ride *)
Report(reqs, rides, e) ==
    LET ride == rides[e.ride]
        first_req == FindById(reqs, GetDemandId(reqs, ride, 0))
        start_time == RoundToDouble(reqs[first_req].request_time)
        duration == ride.total_duration
    IN  [ride |-> e.ride,
         end_time |-> DoubleAdd(start_time, duration),
         total_distance |-> ride.total_distance,
         stops |-> GetSegmentCount(ride) + 1,
         path |-> RoutePath(ride)]

(* mutant: the cursor of the next event is not advanced *)
NextEventSameStop(rides, e) ==
    NewEvent(DoubleAdd(e.time, GetSegment(rides[e.ride], e.stop_index).time),
             e.ride, e.stop_index)

(* mutant: the next event is timed after the whole route *)
NextEventAfterWholeRoute(rides, e) ==
    NewEvent(DoubleAdd(e.time, rides[e.ride].total_duration),
             e.ride, e.stop_index + 1)

(* mutant: the cursor of the next event skips a stop *)
NextEventSkipsStop(rides, e) ==
    NewEvent(DoubleAdd(e.time, GetSegment(rides[e.ride], e.stop_index).time),
             e.ride, e.stop_index + 2)

(* the event pushed after traversing segment e.stop_index *)
NextEvent(rides, e) ==
    NewEvent(DoubleAdd(e.time, GetSegment(rides[e.ride], e.stop_index).time),
             e.ride, e.stop_index + 1)

SimStep ==
    /\ pc = "simulate"
    /\ ~empty(event_queue)
    /\ LET e == top(event_queue)
           popped == pop(event_queue)
       IN  /\ current_time' = e.time
           /\ memory' = ReadSegments(memory, completed_rides, e)
           /\ IF e.stop_index < GetSegmentCount(completed_rides[e.ride])
              THEN /\ event_queue' = push(popped, NextEvent(completed_rides, e))
                   /\ trace' = TracePush(TracePop(trace, e),
                                         NextEvent(completed_rides, e))
                   /\ output' = output
              ELSE /\ event_queue' = popped
                   /\ trace' = TracePop(trace, e)
                   /\ output' = Append(output, Report(all_requests, completed_rides, e))
    /\ UNCHANGED <<cin_fail, params, num_requests, all_requests, pc, i, r, completed_rides, k>>

(* loop left with the queue empty: cleanup and return *)
EndSimulation ==
    /\ pc = "simulate"
    /\ empty(event_queue)
    /\ pc' = "done"
    /\ memory' = Cleanup(memory, Len(completed_rides))
    /\ UNCHANGED <<cin_fail, params, num_requests, all_requests, i, r, completed_rides, k, event_queue,
                   current_time, output, trace>>

Next ==
    \/ ReadHeader
    \/ ReadCount
    \/ ReadRequest
    \/ BeginGrouping
    \/ StartRide
    \/ AdmitRequest
    \/ CloseRide
    \/ EndGrouping
    \/ ScheduleRide
    \/ BeginSimulation
    \/ SimStep
    \/ EndSimulation

Spec == Init /\ [][Next]_vars

FairSpec == Spec /\ WF_vars(Next)

-----------------------------------------------------------------------------
(* The program on timestamps from 2^53 on, where a double holds the even    *)
(* integers only: two requests stand at the same two points of a line, one  *)
(* unit apart, and the vehicle moves one unit of distance per unit of time. *)

LargeTimes == {Large, Large + 2}

LinePoints == {<<0, 0>>, <<1, 0>>}

LargeTimeRequests ==
    {[time |-> t, origin |-> o, dest |-> d] :
        t \in LargeTimes, o \in LinePoints, d \in LinePoints}

LargeTimeParams ==
    {[capacity |-> 2, speed |-> 1, max_wait_time |-> 100, max_delay |-> 100,
      max_distance |-> 100, min_efficiency |-> Zero]}

ReadLargeTimeHeader == ReadHeaderFrom(LargeTimeParams)

ReadLargeTimeRequest == ReadRequestFrom(LargeTimeRequests)

NextLargeTimes ==
    \/ ReadLargeTimeHeader
    \/ ReadCount
    \/ ReadLargeTimeRequest
    \/ BeginGrouping
    \/ StartRide
    \/ AdmitRequest
    \/ CloseRide
    \/ EndGrouping
    \/ ScheduleRide
    \/ BeginSimulation
    \/ SimStep
    \/ EndSimulation

SpecLargeTimes == Init /\ [][NextLargeTimes]_vars

-----------------------------------------------------------------------------
(* The program on any input, well formed or not: a field may be missing or *)
(* malformed at any place of the stream.                                   *)

AnyInputParams ==
    {[capacity |-> 2, speed |-> 2, max_wait_time |-> 100, max_delay |-> 2,
      max_distance |-> 10, min_efficiency |-> Zero]}

AnyInputRequests ==
    {[time |-> 0, origin |-> o, dest |-> d] : o \in Points, d \in Points}

ReadAnyInputHeader == ReadHeaderFrom(AnyInputParams)

ReadAnyInputRequest == ReadRequestFrom(AnyInputRequests)

RequestFails == RequestFailsWith(AnyInputRequests)

NextMalformed ==
    \/ ReadAnyInputHeader
    \/ HeaderFails
    \/ ReadCount
    \/ CountFails
    \/ ReadAnyInputRequest
    \/ RequestFails
    \/ BeginGrouping
    \/ StartRide
    \/ AdmitRequest
    \/ CloseRide
    \/ EndGrouping
    \/ ScheduleRide
    \/ BeginSimulation
    \/ SimStep
    \/ EndSimulation

SpecMalformed == Init /\ [][NextMalformed]_vars

-----------------------------------------------------------------------------
(* The program on two families of inputs: the header with capacity 4 and   *)
(* speed 1 followed by requests at time 0 from (0,0) to (10,0); and a      *)
(* header with capacity 1 or 2 followed by requests at time 5 from (0,0)   *)
(* to (3,4), at a speed that divides 5, or at a speed that is not positive.*)

EndToEndParams ==
    [capacity |-> 4, speed |-> 1, max_wait_time |-> 100, max_delay |-> 100,
     max_distance |-> 100, min_efficiency |-> Zero]

EndToEndRequest == [time |-> 0, origin |-> <<0, 0>>, dest |-> <<10, 0>>]

MinimalParams ==
    {[capacity |-> c, speed |-> s, max_wait_time |-> 100, max_delay |-> 100,
      max_distance |-> 100, min_efficiency |-> Zero] :
        c \in {1, 2}, s \in {-1, 0, 1, 5}}

MinimalRequest == [time |-> 5, origin |-> <<0, 0>>, dest |-> <<3, 4>>]

ExampleParams == {EndToEndParams} \cup MinimalParams

(* the request lines that follow the header p *)
ExampleRequests(p) ==
    IF p = EndToEndParams THEN {EndToEndRequest} ELSE {MinimalRequest}

ReadExampleHeader == ReadHeaderFrom(ExampleParams)

ReadExampleRequest == ReadRequestFrom(ExampleRequests(params))

NextExamples ==
    \/ ReadExampleHeader
    \/ ReadCount
    \/ ReadExampleRequest
    \/ BeginGrouping
    \/ StartRide
    \/ AdmitRequest
    \/ CloseRide
    \/ EndGrouping
    \/ ScheduleRide
    \/ BeginSimulation
    \/ SimStep
    \/ EndSimulation

SpecExamples == Init /\ [][NextExamples]_vars

-----------------------------------------------------------------------------
(* The program run twice on the same requests and the same header but for  *)
(* max_wait_time: when the first run has returned, its rides and its       *)
(* output are kept and main starts again from Phase 1 on the requests it   *)
(* read, with another max_wait_time in params.                             *)

WaitTimeChoices == {0, 1, 100}

WaitTimeParams ==
    {[capacity |-> c, speed |-> 2, max_wait_time |-> w, max_delay |-> 2,
      max_distance |-> 10, min_efficiency |-> Zero] :
        c \in {2, 3}, w \in WaitTimeChoices}

ReadWaitTimeHeader == ReadHeaderFrom(WaitTimeParams)

ReadWaitTimeRequest == ReadRequestFrom(RequestChoices)

RunAgain ==
    /\ pc = "done"
    /\ ~trace.first_run.made
    /\ \E w \in WaitTimeChoices \ {params.max_wait_time} :
           params' = [params EXCEPT !.max_wait_time = w]
    /\ trace' = [NoTrace EXCEPT !.first_run =
                     [made |-> TRUE,
                      rides |-> [n \in 1..Len(completed_rides) |->
                                    completed_rides[n].requests],
                      output |-> output]]
    /\ pc' = "group"
    /\ i' = 0
    /\ r' = NoRide
    /\ completed_rides' = <<>>
    /\ k' = 0
    /\ event_queue' = <<>>
    /\ current_time' = 0
    /\ output' = <<>>
    /\ memory' = NoMemory
    /\ UNCHANGED <<cin_fail, num_requests, all_requests>>

NextWaitTime ==
    \/ ReadWaitTimeHeader
    \/ ReadCount
    \/ ReadWaitTimeRequest
    \/ BeginGrouping
    \/ StartRide
    \/ AdmitRequest
    \/ CloseRide
    \/ EndGrouping
    \/ ScheduleRide
    \/ BeginSimulation
    \/ SimStep
    \/ EndSimulation
    \/ RunAgain

SpecWaitTime == Init /\ [][NextWaitTime]_vars

-----------------------------------------------------------------------------
(* The program on headers chosen for the routes and their rebuilds: no     *)
(* sharing at capacity 0, rides of up to three members at capacity 3,      *)
(* a candidate refused for its timestamp after temp_ride was built, at     *)
(* a negative, a zero and a positive speed.                                *)

RouteParams ==
    {[capacity |-> c, speed |-> s, max_wait_time |-> 100, max_delay |-> 1,
      max_distance |-> 10, min_efficiency |-> Zero] :
        c \in {0, 3}, s \in {-1, 0, 2}}

ReadRouteHeader == ReadHeaderFrom(RouteParams)

ReadRouteRequest == ReadRequestFrom(RequestChoices)

NextRoutes ==
    \/ ReadRouteHeader
    \/ ReadCount
    \/ ReadRouteRequest
    \/ BeginGrouping
    \/ StartRide
    \/ AdmitRequest
    \/ CloseRide
    \/ EndGrouping
    \/ ScheduleRide
    \/ BeginSimulation
    \/ SimStep
    \/ EndSimulation

SpecRoutes == Init /\ [][NextRoutes]_vars

-----------------------------------------------------------------------------
(* The program on request lines whose identifier is any of three names, so *)
(* that the identifiers of an input are pairwise distinct or not.          *)

IdChoices == {"A", "B", "C"}

IdParams ==
    {[capacity |-> 3, speed |-> 2, max_wait_time |-> 100, max_delay |-> 1,
      max_distance |-> 8, min_efficiency |-> Zero]}

IdRequests == {[time |-> t, origin |-> o, dest |-> <<0, 0>>] :
                  t \in RequestTimes, o \in Points}

ReadIdHeader == ReadHeaderFrom(IdParams)

(* one iteration of the input loop: the identifier is read from the line *)
ReadRequestWithId ==
    /\ pc = "requests"
    /\ ~cin_fail
    /\ Len(all_requests) < num_requests
    /\ \E id \in IdChoices : \E line \in IdRequests :
           all_requests' =
               Append(all_requests,
                      NewRequest(id, line.time,
                                 CoordString(line.origin[1], line.origin[2]),
                                 CoordString(line.dest[1], line.dest[2])))
    /\ UNCHANGED <<cin_fail, memory, params, num_requests, pc, i, r, completed_rides, k,
                   event_queue, current_time, output, trace>>

NextIds ==
    \/ ReadIdHeader
    \/ ReadCount
    \/ ReadRequestWithId
    \/ BeginGrouping
    \/ StartRide
    \/ AdmitRequest
    \/ CloseRide
    \/ EndGrouping
    \/ ScheduleRide
    \/ BeginSimulation
    \/ SimStep
    \/ EndSimulation

SpecIds == Init /\ [][NextIds]_vars

-----------------------------------------------------------------------------
(* The scheduler alone, driven by arbitrary pushes and pops *)

TagChoices == {1, 2}

(* the counters of the history are not kept here: runs are unbounded *)
Uncounted(tr) == [tr EXCEPT !.pops = 0, !.pushes = 0]

HeapInit ==
    /\ cin_fail = FALSE
    /\ params = NoParams
    /\ num_requests = 0
    /\ all_requests = <<>>
    /\ pc = "heap"
    /\ i = 0
    /\ r = NoRide
    /\ completed_rides = <<>>
    /\ k = 0
    /\ event_queue = <<>>
    /\ current_time = 0
    /\ output = <<>>
    /\ trace = NoTrace
    /\ memory = NoMemory

HeapPush ==
    /\ pc = "heap"
    /\ size(event_queue) < MaxHeapSize
    /\ \E t \in 0..MaxTime : \E tag \in TagChoices :
           /\ event_queue' = push(event_queue, NewEvent(t, tag, 0))
           /\ trace' = Uncounted(TracePush(trace, NewEvent(t, tag, 0)))
    /\ UNCHANGED <<cin_fail, memory, params, num_requests, all_requests, pc, i, r, completed_rides, k,
                   current_time, output>>

HeapPop ==
    /\ pc = "heap"
    /\ event_queue' = pop(event_queue)
    /\ trace' = IF empty(event_queue) THEN trace
                ELSE Uncounted(TracePop(trace, top(event_queue)))
    /\ UNCHANGED <<cin_fail, memory, params, num_requests, all_requests, pc, i, r, completed_rides, k,
                   current_time, output>>

HeapNext == HeapPush \/ HeapPop

SpecHeap == HeapInit /\ [][HeapNext]_vars


-----------------------------------------------------------------------------
(* Vocabulary of the properties *)

Max(a, b) == IF a >= b THEN a ELSE b

(* the rides formed so far: the stored ones, then the one being extended *)
AllRides == completed_rides \o (IF r = NoRide THEN <<>> ELSE <<r>>)

RECURSIVE ConcatMembers(_, _)
ConcatMembers(rides, n) ==
    IF n = 0 THEN <<>>
    ELSE ConcatMembers(rides, n - 1) \o rides[n].requests

OriginDistance(a, b) == calcDist(all_requests[a].origin, all_requests[b].origin)

DestinationDistance(a, b) ==
    calcDist(all_requests[a].destination, all_requests[b].destination)

Members(ride) == {ride.requests[j] : j \in 1..Len(ride.requests)}

RECURSIVE TotalPops(_, _)
TotalPops(rides, n) ==
    IF n = 0 THEN 0
    ELSE TotalPops(rides, n - 1) + GetSegmentCount(rides[n]) + 1

ReportsOf(ride_index) == {j \in 1..Len(output) : output[j].ride = ride_index}

RemoveAt(seq, j) == SubSeq(seq, 1, j - 1) \o SubSeq(seq, j + 1, Len(seq))

Occurrences(seq, e) == Cardinality({j \in 1..Len(seq) : seq[j] = e})

SameBag(s1, s2) ==
    /\ Len(s1) = Len(s2)
    /\ \A j \in 1..Len(s1) : Occurrences(s1, s1[j]) = Occurrences(s2, s1[j])

-----------------------------------------------------------------------------
(* C1: the rides formed so far, concatenated in formation order with the    *)
(* members in assignment order, are exactly the requests consumed so far,   *)
(* in input order; once grouping is over all N requests are consumed, so    *)
(* every request is in exactly one ride, none dropped, repeated, reordered. *)
C1_GroupingPartitionsRequests ==
    /\ ConcatMembers(AllRides, Len(AllRides)) = [j \in 1..i |-> j]
    /\ pc \in {"schedule", "simulate", "done"} =>
                       /\ i = Len(all_requests)
                       /\ r = NoRide
                       /\ \A n \in 1..Len(completed_rides) :
                              completed_rides[n].requests # <<>>

C1_Witness ==
    /\ pc = "schedule"
    /\ Len(all_requests) = 3
    /\ Len(completed_rides) = 2
    /\ GetDemandCount(completed_rides[1]) = 2

(* C2 as stated: every ride holds at most `capacity` requests. *)
C2_RideWithinCapacity ==
    \A n \in 1..Len(AllRides) : GetDemandCount(AllRides[n]) <= params.capacity

(* C2 amended: every ride holds at most max(capacity, 1) requests: the seed *)
(* request of a ride is added without a capacity check.                     *)
C2_RideWithinCapacityOrSeed ==
    \A n \in 1..Len(AllRides) :
        GetDemandCount(AllRides[n]) <= Max(params.capacity, 1)

(* the ride is full and the next request passes every other check *)
C2_Witness ==
    /\ pc = "group"
    /\ r # NoRide
    /\ i < Len(all_requests)
    /\ params.capacity = 2
    /\ GetDemandCount(r) = params.capacity
    /\ ProximityOk(params, all_requests, r, i + 1)
    /\ EfficiencyOk(params, all_requests, r, i + 1)
    /\ DelayOk(params, all_requests, r, i + 1)

(* C3: any two members of a ride have origins within max_distance of each   *)
(* other and destinations within max_distance of each other.                *)
C3_CoRidersWithinMaxDistance ==
    \A n \in 1..Len(AllRides) :
        \A a \in Members(AllRides[n]) : \A b \in Members(AllRides[n]) :
            /\ OriginDistance(a, b) <= params.max_distance
            /\ DestinationDistance(a, b) <= params.max_distance

(* a stored ride of two members whose origins are exactly max_distance apart *)
C3_Witness ==
    \E n \in 1..Len(completed_rides) :
        /\ GetDemandCount(completed_rides[n]) >= 2
        /\ OriginDistance(completed_rides[n].requests[1],
                          completed_rides[n].requests[2]) = params.max_distance

(* C4: a ride of two or more requests has a stored efficiency that is at    *)
(* least min_efficiency, after every admission and when grouping ends.      *)
C4_SharedRideEfficient ==
    \A n \in 1..Len(AllRides) :
        GetDemandCount(AllRides[n]) >= 2 =>
            RatGeq(AllRides[n].efficiency, params.min_efficiency)

(* grouping is over, the threshold is 1 and a shared ride meets it exactly *)
C4_Witness ==
    /\ pc = "schedule"
    /\ params.min_efficiency.num = 1
    /\ \E n \in 1..Len(completed_rides) :
           /\ GetDemandCount(completed_rides[n]) >= 2
           /\ completed_rides[n].efficiency.num = completed_rides[n].efficiency.den

(* C5: every member's timestamp is within max_delay of the timestamp of the *)
(* first member of its ride.                                                *)
C5_MembersWithinMaxDelay ==
    \A n \in 1..Len(AllRides) :
        \A a \in Members(AllRides[n]) :
            Abs(all_requests[a].request_time
                - all_requests[AllRides[n].requests[1]].request_time)
                <= params.max_delay

(* a member admitted with a timestamp exactly max_delay before the first's *)
C5_Witness ==
    \E n \in 1..Len(completed_rides) :
        /\ GetDemandCount(completed_rides[n]) >= 2
        /\ all_requests[completed_rides[n].requests[1]].request_time
           - all_requests[completed_rides[n].requests[2]].request_time
               = params.max_delay

(* C6: a ride built for n >= 1 requests has 2n - 1 segments, during         *)
(* grouping and simulation, and each report prints segment count + 1 stops, *)
(* followed by that many coordinates.                                       *)
C6_SegmentCount ==
    /\ \A n \in 1..Len(AllRides) :
           GetDemandCount(AllRides[n]) >= 1 =>
               GetSegmentCount(AllRides[n]) = 2 * GetDemandCount(AllRides[n]) - 1
    /\ \A j \in 1..Len(output) :
           /\ output[j].stops = GetSegmentCount(completed_rides[output[j].ride]) + 1
           /\ output[j].stops = 2 * GetDemandCount(completed_rides[output[j].ride])
           /\ Len(output[j].path) = output[j].stops

C6_Witness ==
    \E j \in 1..Len(output) :
        /\ GetDemandCount(completed_rides[output[j].ride]) = 3
        /\ output[j].stops = 6

-----------------------------------------------------------------------------
(* C7: after any pushes and pops no element of the backing array is smaller *)
(* than its parent at (index - 1) / 2, the top is no later than any stored  *)
(* event, and a pop removes exactly one event of minimum time.              *)
HeapOrdered(heap) ==
    \A idx \in 1..(Len(heap) - 1) :
        ~EventLess(heap[idx + 1], heap[((idx - 1) \div 2) + 1])

TopIsMinimum(heap) ==
    heap # <<>> => \A j \in 1..Len(heap) : top(heap).time <= heap[j].time

PopRemovesOneMinimum ==
    Len(event_queue') < Len(event_queue) =>
        \E j \in 1..Len(event_queue) :
            /\ \A m \in 1..Len(event_queue) :
                   event_queue[j].time <= event_queue[m].time
            /\ SameBag(event_queue', RemoveAt(event_queue, j))

C7_HeapOrder ==
    /\ [](HeapOrdered(event_queue) /\ TopIsMinimum(event_queue))
    /\ [][PopRemovesOneMinimum]_vars

(* a full heap of several distinct times from which an event was popped *)
C7_Witness ==
    /\ trace.last_pop # -1
    /\ Len(event_queue) = MaxHeapSize
    /\ \E a \in 1..Len(event_queue) : \E b \in 1..Len(event_queue) :
           event_queue[a].time < event_queue[b].time

(* C8 as stated: over any pushes and pops the popped times never decrease. *)
C8_PopsNonDecreasing == trace.sorted

(* C8 amended: the popped times never decrease as long as no push inserts   *)
(* an event earlier than the event popped last (the simulation loop pushes  *)
(* popped time + a segment time >= 0, so it never does).                    *)
C8_PopsNonDecreasingUnlessEarlyPush == ~trace.early_push => trace.sorted

(* two pops of increasing time, pushes having followed a pop, none early *)
C8_Witness ==
    /\ ~trace.early_push
    /\ trace.prev_pop # -1
    /\ trace.prev_pop < trace.last_pop
    /\ Len(event_queue) >= 2

-----------------------------------------------------------------------------
(* C9: no ride is reported twice, no event of a reported ride is pending    *)
(* (so none is pushed or popped after the report), and when the loop has    *)
(* ended every formed ride has exactly one report.                          *)
C9_EachRideReportedOnce ==
    /\ \A n \in 1..Len(completed_rides) : Cardinality(ReportsOf(n)) <= 1
    /\ \A j \in 1..Len(event_queue) : ReportsOf(event_queue[j].ride) = {}
    /\ \A j \in 1..Len(output) : output[j].ride \in 1..Len(completed_rides)
    /\ pc = "done" =>
           /\ Len(output) = Len(completed_rides)
           /\ \A n \in 1..Len(completed_rides) : Cardinality(ReportsOf(n)) = 1

C9_Witness ==
    /\ pc = "done"
    /\ Len(completed_rides) = 2
    /\ Len(output) = 2
    /\ output[1].ride = 2

(* C10: the run ends with the scheduler empty after exactly the sum over    *)
(* the rides of (segment count + 1) pops, every ride reported; and each     *)
(* outer iteration of the grouping pass advances the request index.         *)
C10_Terminates ==
    /\ <>(pc = "done" /\ empty(event_queue))
    /\ [](pc = "simulate" =>
              trace.pops <= TotalPops(completed_rides, Len(completed_rides)))
    /\ [](pc = "done" =>
              /\ empty(event_queue)
              /\ trace.pops = TotalPops(completed_rides, Len(completed_rides))
              /\ Len(output) = Len(completed_rides))
    /\ [][(pc = "group" /\ r = NoRide /\ r' # NoRide) => i' > i]_vars
    /\ [][i' >= i /\ i' <= Len(all_requests)]_vars

C10_Witness ==
    /\ pc = "done"
    /\ Len(completed_rides) = 2
    /\ trace.pops = 6
    /\ params.speed > 0

-----------------------------------------------------------------------------
(* C11: in the simulation loop the clock is 0 before the first pop and then *)
(* the time of the event popped last, and a pop never sets it to a smaller  *)
(* value than the pop before it did, whatever the rides and the speed.      *)
C11_ClockFollowsPops ==
    /\ [](pc \in {"simulate", "done"} =>
              current_time = IF trace.pops = 0 THEN 0 ELSE trace.last_pop)
    /\ [][(trace.pops > 0 /\ trace.pops' > trace.pops) =>
              current_time' >= current_time]_vars

(* speed 0: a second ride starts, and is popped, later than the first *)
C11_Witness ==
    /\ pc = "simulate"
    /\ params.speed <= 0
    /\ trace.prev_pop # -1
    /\ trace.prev_pop < trace.last_pop
    /\ current_time = trace.last_pop

-----------------------------------------------------------------------------
(* C12: the finish time printed for a ride is the time of the event popped  *)
(* at its terminal transition, which the clock holds when the line is       *)
(* written.                                                                 *)
C12_FinishTimeIsPoppedTime ==
    [][Len(output') > Len(output) =>
          output'[Len(output')].end_time = current_time']_vars

-----------------------------------------------------------------------------
(* C13: the lines are written in the order the rides finish: the finish     *)
(* time printed on a line is never smaller than the one on the line before, *)
(* whatever the order in which the rides were formed.                       *)
C13_FinishTimesNonDecreasing ==
    \A j \in 1..(Len(output) - 1) : output[j].end_time <= output[j + 1].end_time

-----------------------------------------------------------------------------
(* C14: building the route of a ride again, with the same requests and the  *)
(* same speed, leaves the ride as the first build left it: the same total   *)
(* distance, total duration, efficiency and sequence of segments, none of   *)
(* the first build's segments being kept beside the new ones.               *)
C14_UpdateRouteIdempotent ==
    \A n \in 1..Len(AllRides) :
        /\ UpdateRoute(all_requests, AllRides[n], params.speed) = AllRides[n]
        /\ GetSegmentCount(UpdateRoute(all_requests, AllRides[n], params.speed))
               = GetSegmentCount(AllRides[n])

(* a ride of three requests, built three times already, at a positive speed *)
C14_Witness ==
    /\ pc = "group"
    /\ params.speed > 0
    /\ GetDemandCount(r) = 3
    /\ r.total_distance > 0
    /\ GetSegmentCount(UpdateRoute(all_requests, r, params.speed)) = 5

-----------------------------------------------------------------------------
(* C15: a built ride whose total route distance is 0, which is when all its *)
(* stops are at one point, has efficiency exactly 0, no quotient by 0 being *)
(* formed; any other built ride has efficiency (sum of its members' direct  *)
(* origin-to-destination distances) / (total route distance).               *)
StopPoints(ride) ==
    {all_requests[a].origin : a \in Members(ride)}
        \cup {all_requests[a].destination : a \in Members(ride)}

C15_EfficiencyOfBuiltRide ==
    \A n \in 1..Len(AllRides) :
        /\ AllRides[n].total_distance = 0 <=> Cardinality(StopPoints(AllRides[n])) = 1
        /\ AllRides[n].efficiency.den # 0
        /\ IF AllRides[n].total_distance = 0
           THEN AllRides[n].efficiency = Zero
           ELSE /\ AllRides[n].efficiency.den = AllRides[n].total_distance
                /\ AllRides[n].efficiency.num =
                       SumDirect(all_requests, AllRides[n].requests,
                                 GetDemandCount(AllRides[n]))

(* a stored ride of two requests whose four stops are at one point *)
C15_Witness ==
    \E n \in 1..Len(completed_rides) :
        /\ GetDemandCount(completed_rides[n]) = 2
        /\ completed_rides[n].total_distance = 0
        /\ completed_rides[n].efficiency = Zero

-----------------------------------------------------------------------------
(* C16: when the header cannot be read, main returns 0 at once (pc = "done" *)
(* is the return of 0, the only way main ends): no line is written, no      *)
(* request is read, no ride is formed and no event is scheduled, then or    *)
(* later.                                                                   *)
NothingDone ==
    /\ output = <<>>
    /\ all_requests = <<>>
    /\ completed_rides = <<>>
    /\ r = NoRide
    /\ empty(event_queue)
    /\ trace = NoTrace

C16_HeaderFailureEndsRun ==
    /\ [][(pc = "header" /\ cin_fail') => (pc' = "done" /\ NothingDone')]_vars
    /\ [](pc = "header" => NothingDone)
    /\ [][pc = "done" => pc' = "done" /\ output' = output]_vars

C16_Witness ==
    /\ pc = "done"
    /\ cin_fail
    /\ params = NoParams
    /\ NothingDone

-----------------------------------------------------------------------------
(* C17: when the request count or a request line is missing or malformed,  *)
(* the run ends having written no line at all.                             *)
C17_NoOutputOnShortInput == (pc = "done" /\ cin_fail) => output = <<>>

-----------------------------------------------------------------------------
(* C18: on capacity 4, speed 1, max_delay 100, max_distance 100,           *)
(* min_efficiency 0 and two requests at time 0 from (0,0) to (10,0), the   *)
(* grouper forms one ride of the two requests, with 3 segments of          *)
(* distances 0, 10, 0, total distance 10 and efficiency 20/10 = 2, and the *)
(* one line of output reports finish time 10 and 4 stops.                  *)
EndToEndInput ==
    /\ params = EndToEndParams
    /\ num_requests = 2
    /\ Len(all_requests) = 2

-----------------------------------------------------------------------------
(* C19: a ride holding one request has one segment, from its pickup to its *)
(* dropoff and classified displacement; its total distance is the direct   *)
(* distance of the request and its efficiency is 1 when origin and         *)
(* destination differ; its line of output has 2 stops.                     *)
DirectDistance(a) == calcDist(all_requests[a].origin, all_requests[a].destination)

SingleRequestRoute ==
    \A n \in 1..Len(AllRides) :
        GetDemandCount(AllRides[n]) = 1 =>
            LET a == AllRides[n].requests[1]
                ride == AllRides[n]
            IN  /\ GetSegmentCount(ride) = 1
                /\ ride.segments[1].type = "DISPLACEMENT_SEGMENT"
                /\ ride.segments[1].start.coordinate = all_requests[a].origin
                /\ ride.segments[1].end.coordinate = all_requests[a].destination
                /\ ride.total_distance = DirectDistance(a)
                /\ all_requests[a].origin # all_requests[a].destination =>
                       /\ ride.efficiency.den # 0
                       /\ ride.efficiency.num = ride.efficiency.den

SingleRequestReports ==
    {j \in 1..Len(output) : GetDemandCount(completed_rides[output[j].ride]) = 1}

-----------------------------------------------------------------------------
(* C20: the members of a ride are consecutive requests of the input; when  *)
(* the candidate fails a check the ride is closed with the index left on   *)
(* that candidate, which then seeds the next ride; and a closed ride is    *)
(* never extended or rebuilt.                                              *)
Contiguous(ride) ==
    \A j \in 1..(GetDemandCount(ride) - 1) :
        ride.requests[j + 1] = ride.requests[j] + 1

CandidateFails ==
    /\ pc = "group"
    /\ r # NoRide
    /\ i < Len(all_requests)
    /\ ~AdmitOk(params, all_requests, r, i + 1)

C20_NoRequestSkipped ==
    /\ [](\A n \in 1..Len(AllRides) : Contiguous(AllRides[n]))
    /\ [][CandidateFails =>
              /\ r' = NoRide
              /\ i' = i
              /\ completed_rides' = Append(completed_rides, r)]_vars
    /\ [][(pc = "group" /\ r = NoRide /\ r' # NoRide) =>
              /\ r'.requests = <<i + 1>>
              /\ i' = i + 1]_vars
    /\ [][(pc = "group" /\ r # NoRide /\ r' # NoRide) =>
              /\ r'.requests = Append(r.requests, i + 1)
              /\ i' = i + 1]_vars
    /\ [][\A n \in 1..Len(completed_rides) :
              /\ Len(completed_rides') >= n
              /\ completed_rides'[n] = completed_rides[n]]_vars

(* the second request failed a check other than capacity against the ride  *)
(* of the first, and is now the seed of the ride being extended            *)
C20_Witness ==
    /\ pc = "group"
    /\ params.capacity >= 2
    /\ Len(completed_rides) = 1
    /\ completed_rides[1].requests = <<1>>
    /\ r # NoRide
    /\ r.requests = <<2, 3>>

-----------------------------------------------------------------------------
(* C21: the candidate joins the ride being extended exactly when the ride   *)
(* holds fewer than `capacity` requests, the candidate's origin and         *)
(* destination are within max_distance (inclusive) of every member's, the   *)
(* route of the members plus the candidate has efficiency >= min_efficiency *)
(* and the candidate's timestamp is within max_delay (inclusive) of the     *)
(* first member's; so a ride stored while requests remain is one the next   *)
(* request could not join.                                                  *)
WithCandidate(ride, c) ==
    UpdateRoute(all_requests, [NewRide EXCEPT !.requests = Append(ride.requests, c)],
                params.speed)

FourChecksPass(ride, c) ==
    /\ GetDemandCount(ride) < params.capacity
    /\ \A a \in Members(ride) :
           /\ OriginDistance(a, c) <= params.max_distance
           /\ DestinationDistance(a, c) <= params.max_distance
    /\ RatGeq(WithCandidate(ride, c).efficiency, params.min_efficiency)
    /\ Abs(all_requests[c].request_time
              - all_requests[ride.requests[1]].request_time) <= params.max_delay

LastMember(ride) == ride.requests[GetDemandCount(ride)]

-----------------------------------------------------------------------------
-----------------------------------------------------------------------------
(* the timestamp of the first member of ride n *)
FirstTimestamp(n) == all_requests[completed_rides[n].requests[1]].request_time

(* the times of segments 0..c-1 of ride n, added as numbers *)
RECURSIVE SegmentTimeSum(_, _)
SegmentTimeSum(n, c) ==
    IF c = 0 THEN 0
    ELSE SegmentTimeSum(n, c - 1) + GetSegment(completed_rides[n], c - 1).time

(* the same times added one after the other to the first timestamp, each   *)
(* addition rounded to a double                                            *)
RECURSIVE TimelineTime(_, _)
TimelineTime(n, c) ==
    IF c = 0 THEN RoundToDouble(FirstTimestamp(n))
    ELSE DoubleAdd(TimelineTime(n, c - 1),
                   GetSegment(completed_rides[n], c - 1).time)

-----------------------------------------------------------------------------
(* the stops of a built ride, read off its segments: the start of the      *)
(* first, then the end of each                                             *)
StopsOf(ride) ==
    <<ride.segments[1].start>>
        \o [j \in 1..GetSegmentCount(ride) |-> ride.segments[j].end]

(* stop j of a ride of n members is the pickup of member j at its origin   *)
(* for j <= n and the dropoff of member j - n at its destination above     *)
TwoBlocks(ride) ==
    LET n == GetDemandCount(ride)
    IN  /\ Len(StopsOf(ride)) = 2 * n
        /\ \A j \in 1..n :
               /\ StopsOf(ride)[j].type = "PICKUP"
               /\ StopsOf(ride)[j].coordinate = all_requests[ride.requests[j]].origin
               /\ StopsOf(ride)[j].passenger_id = all_requests[ride.requests[j]].id
               /\ StopsOf(ride)[n + j].type = "DROPOFF"
               /\ StopsOf(ride)[n + j].coordinate
                      = all_requests[ride.requests[j]].destination
               /\ StopsOf(ride)[n + j].passenger_id = all_requests[ride.requests[j]].id

(* C24: the stops of a built ride with members r1..rn are origin(r1), ..., *)
(* origin(rn), destination(r1), ..., destination(rn); segment j starts at  *)
(* stop j and ends at stop j + 1, where the next segment starts; the path  *)
(* of the ride's report has the coordinates of these stops in this order.  *)
C24_StopOrder ==
    /\ \A n \in 1..Len(AllRides) :
           GetSegmentCount(AllRides[n]) >= 1 =>
               /\ TwoBlocks(AllRides[n])
               /\ \A j \in 1..(GetSegmentCount(AllRides[n]) - 1) :
                      AllRides[n].segments[j].end = AllRides[n].segments[j + 1].start
    /\ \A j \in 1..Len(output) :
           LET members == completed_rides[output[j].ride].requests
           IN  output[j].path
                   = [m \in 1..Len(members) |->
                         ParseCoord(all_requests[members[m]].origin)]
                     \o [m \in 1..Len(members) |->
                            ParseCoord(all_requests[members[m]].destination)]

(* the report of a ride of two members with different origins and          *)
(* different destinations                                                  *)
C24_Witness ==
    \E j \in 1..Len(output) :
        LET members == completed_rides[output[j].ride].requests
        IN  /\ Len(members) = 2
            /\ all_requests[members[1]].origin # all_requests[members[2]].origin
            /\ all_requests[members[1]].destination
                   # all_requests[members[2]].destination
            /\ Len(output[j].path) = 4

-----------------------------------------------------------------------------
(* C25: at a speed <= 0 every segment of every built ride has time 0 and   *)
(* every ride has total duration 0; each line carries the timestamp of the *)
(* first request of its ride as finish time; the run is never stuck before *)
(* main returns, and when it has returned there is exactly one line for    *)
(* each ride.                                                              *)
C25_NonPositiveSpeed ==
    (pc # "header" /\ params.speed <= 0) =>
        /\ \A n \in 1..Len(AllRides) :
               /\ AllRides[n].total_duration = 0
               /\ \A j \in 1..GetSegmentCount(AllRides[n]) :
                      AllRides[n].segments[j].time = 0
        /\ \A j \in 1..Len(output) :
               output[j].end_time
                   = all_requests[completed_rides[output[j].ride].requests[1]].request_time
        /\ pc # "done" => ENABLED NextRoutes
        /\ pc = "done" =>
               /\ Len(output) = Len(completed_rides)
               /\ \A n \in 1..Len(completed_rides) : Cardinality(ReportsOf(n)) = 1

(* a finished run at speed -1 with a shared ride over a distance, started  *)
(* at time 2, and a second ride started at time 0                          *)
C25_Witness ==
    /\ pc = "done"
    /\ params.speed = -1
    /\ Len(completed_rides) = 2
    /\ GetDemandCount(completed_rides[1]) = 2
    /\ completed_rides[1].total_distance > 0
    /\ Len(output) = 2
    /\ output[1].end_time = 0
    /\ output[2].end_time = 2

-----------------------------------------------------------------------------
(* the indices with which the simulation loop calls GetSegment when it     *)
(* handles event e: the cursor when a next event is scheduled, and every   *)
(* index below the segment count when the route is printed                 *)
SegmentLookups(e) ==
    IF e.stop_index < GetSegmentCount(completed_rides[e.ride])
    THEN {e.stop_index}
    ELSE 0..(GetSegmentCount(completed_rides[e.ride]) - 1)

(* C26: on well-formed input every step that takes an event from the       *)
(* scheduler starts with the scheduler not empty; every event stored, and  *)
(* so every event popped, belongs to a formed ride and has a cursor from 0 *)
(* to the segment count of that ride; and every index with which the loop  *)
(* looks up a segment is from 0 to segment count - 1, where GetSegment     *)
(* returns a segment.                                                      *)
C26_NoHardFailure ==
    /\ [][trace'.pops # trace.pops => ~empty(event_queue)]_vars
    /\ [](\A j \in 1..Len(event_queue) :
              /\ event_queue[j].ride \in 1..Len(completed_rides)
              /\ event_queue[j].stop_index
                     \in 0..GetSegmentCount(completed_rides[event_queue[j].ride]))
    /\ []((pc = "simulate" /\ ~empty(event_queue)) =>
              \A index \in SegmentLookups(top(event_queue)) :
                  /\ index \in 0..(GetSegmentCount(
                                     completed_rides[top(event_queue).ride]) - 1)
                  /\ GetSegment(completed_rides[top(event_queue).ride], index)
                         = completed_rides[top(event_queue).ride].segments[index + 1])

(* the last event of a ride of two members at the top, its cursor at the   *)
(* segment count 3, with the event of another ride behind it               *)
C26_Witness ==
    /\ pc = "simulate"
    /\ Len(event_queue) = 2
    /\ top(event_queue).stop_index = 3
    /\ GetSegmentCount(completed_rides[top(event_queue).ride]) = 3

-----------------------------------------------------------------------------
(* C27: on an empty scheduler pop() returns with the scheduler empty and   *)
(* nothing changed, and top() raises out_of_range, being an accessor that  *)
(* changes nothing; an element popped before is not in the scheduler any   *)
(* more: a pop that changes anything takes exactly one element away, and   *)
(* once the last is taken the scheduler is empty.                          *)
C27_EmptyQueueHandling ==
    /\ [](empty(event_queue) =>
              /\ pop(event_queue) = <<>>
              /\ size(pop(event_queue)) = 0
              /\ top(event_queue) = "out_of_range")
    /\ [][Len(event_queue') # Len(event_queue) + 1 =>
              /\ ~empty(event_queue)
              /\ Len(event_queue') = Len(event_queue) - 1]_vars

(* the scheduler emptied by pops after it held several events *)
C27_Witness ==
    /\ pc = "heap"
    /\ empty(event_queue)
    /\ trace.prev_pop # -1
    /\ trace.prev_pop < trace.last_pop

-----------------------------------------------------------------------------
(* the start event of ride n, pushed n-th in Phase 2, is still stored *)
StartPending(n) ==
    \E j \in 1..Len(event_queue) :
        event_queue[j].ride = n /\ event_queue[j].stop_index = 0

ThreeRidesStartTogether ==
    /\ Len(completed_rides) = 3
    /\ FirstTimestamp(1) = FirstTimestamp(2)
    /\ FirstTimestamp(2) = FirstTimestamp(3)

(* C28: events of equal time are not popped in the order of their pushes:  *)
(* when three rides start at the same timestamp their start events are     *)
(* pushed in the order 1, 2, 3 and the first two pops of the simulation    *)
(* take those of rides 1 and 3, the event of ride 2, pushed before that of *)
(* ride 3 with the same time, staying behind.                              *)
C28_EqualTimesNotFifo ==
    (pc = "simulate" /\ ThreeRidesStartTogether /\ trace.pops = 2) =>
        /\ ~StartPending(1)
        /\ StartPending(2)
        /\ ~StartPending(3)
        /\ \E j \in 1..Len(event_queue) :
               /\ event_queue[j].ride = 2
               /\ event_queue[j].time = FirstTimestamp(3)

(* the start event of ride 3 popped, that of ride 2 of the same time not *)
C28_Witness ==
    /\ pc = "simulate"
    /\ ThreeRidesStartTogether
    /\ trace.pops = 2
    /\ trace.prev_pop = trace.last_pop
    /\ StartPending(2)
    /\ ~StartPending(3)

-----------------------------------------------------------------------------
(* the segments in segments_ of ride n *)
HeldBy(n) == {memory.held[n][j] : j \in 1..Len(memory.held[n])}

RECURSIVE StopsOfHeldBuilds(_)
StopsOfHeldBuilds(n) ==
    IF n = 0 THEN 0
    ELSE StopsOfHeldBuilds(n - 1)
             + (IF memory.held[n] = <<>> THEN 0 ELSE Len(memory.held[n]) + 1)

(* C29: a segment is owned by the one ride it was built for, the segments  *)
(* of a ride are those of one build, its last, and no segment is in two    *)
(* rides; a segment is deleted at most once, and it is deleted as soon as  *)
(* no ride holds it (at the next UpdateRoute of its ride, at the ride's    *)
(* destruction, or when temp_ride goes out of scope); no deleted segment   *)
(* is read; when main returns every segment has been deleted once.         *)
C29_SegmentOwnership ==
    /\ ~memory.stale
    /\ \A a \in 1..Len(memory.segments) :
           /\ memory.segments[a].released <= 1
           /\ memory.segments[a].released = 0
                  <=> \E n \in 1..Len(memory.held) : a \in HeldBy(n)
           /\ \A b \in 1..Len(memory.segments) :
                  memory.segments[a].build = memory.segments[b].build
                      => memory.segments[a].owner = memory.segments[b].owner
    /\ \A n \in 1..Len(memory.held) :
           /\ Cardinality(HeldBy(n)) = Len(memory.held[n])
           /\ \A a \in HeldBy(n) :
                  /\ memory.segments[a].owner = n
                  /\ memory.segments[a].build
                         = memory.segments[memory.held[n][1]].build
           /\ \A m \in 1..Len(memory.held) :
                  m # n => HeldBy(m) \cap HeldBy(n) = {}
    /\ pc \in {"group", "schedule", "simulate"} =>
           /\ Len(memory.held) = Len(AllRides)
           /\ \A n \in 1..Len(AllRides) :
                  Len(memory.held[n]) = GetSegmentCount(AllRides[n])
    /\ pc = "done" =>
           \A a \in 1..Len(memory.segments) : memory.segments[a].released = 1

(* main has returned after a shared ride, rebuilt when its second member   *)
(* was admitted, a temp_ride that failed a check, and a second ride        *)
C29_Witness ==
    /\ pc = "done"
    /\ Len(completed_rides) = 2
    /\ GetDemandCount(completed_rides[1]) = 2
    /\ memory.builds = 5
    /\ Len(memory.segments) = 13
    /\ Cardinality({a \in 1..Len(memory.segments) :
                       memory.segments[a].owner = 0}) = 8

-----------------------------------------------------------------------------
(* C30: the stops allocated and not deleted are those of the builds whose  *)
(* segments are held by a ride, a build's stops being deleted with its     *)
(* segments; when main returns none is left.                               *)
C30_StopsDoNotLeak ==
    /\ memory.stops = StopsOfHeldBuilds(Len(memory.held))
    /\ pc = "done" => memory.stops = 0

-----------------------------------------------------------------------------
(* the ride, by its place among the rides formed, that holds request a;    *)
(* 0 when none does                                                        *)
RideOf(a) ==
    IF \E n \in 1..Len(AllRides) : a \in Members(AllRides[n])
    THEN CHOOSE n \in 1..Len(AllRides) : a \in Members(AllRides[n])
    ELSE 0

(* C31: a request not yet grouped has no associated ride; a request placed *)
(* in a ride has that ride as its associated ride and is no longer in      *)
(* state Requested, from then on.                                          *)
C31_BackReference ==
    \A a \in 1..Len(all_requests) :
        IF RideOf(a) = 0
        THEN all_requests[a].associated_ride = 0
        ELSE /\ all_requests[a].associated_ride = RideOf(a)
             /\ all_requests[a].state # "kRequested"

-----------------------------------------------------------------------------
(* the events of ride n that the scheduler holds *)
PendingOf(n) == {j \in 1..Len(event_queue) : event_queue[j].ride = n}

(* C32: the scheduler holds at most one event of each ride, and none of a  *)
(* ride whose line has been written: in the simulation loop a ride has one *)
(* pending event exactly as long as it has not been reported; the          *)
(* scheduler never holds more events than there are rides; the events held *)
(* are those pushed and not yet popped, a pop taking one event away, and   *)
(* when main returns every event pushed has been popped.                   *)
C32_OneEventPerRide ==
    /\ [](\A n \in 1..Len(completed_rides) :
              /\ Cardinality(PendingOf(n)) <= 1
              /\ ReportsOf(n) # {} => PendingOf(n) = {}
              /\ pc = "simulate" =>
                     Cardinality(PendingOf(n)) + Cardinality(ReportsOf(n)) = 1)
    /\ [](Len(event_queue) <= Len(completed_rides))
    /\ [](Len(event_queue) = trace.pushes - trace.pops)
    /\ [](pc = "done" => (trace.pushes = trace.pops /\ empty(event_queue)))
    /\ [][trace'.pops \in {trace.pops, trace.pops + 1}]_vars
    /\ [][trace'.pops = trace.pops + 1 =>
              /\ Len(event_queue') - (trace'.pushes - trace.pushes)
                     = Len(event_queue) - 1
              /\ \A j \in 1..Len(event_queue') :
                     event_queue'[j] # top(event_queue)]_vars

(* three rides in the simulation loop, one reported, the two others with   *)
(* an event each, one of them past its first stop                          *)
C32_Witness ==
    /\ pc = "simulate"
    /\ Len(completed_rides) = 3
    /\ Len(output) = 1
    /\ Len(event_queue) = 2
    /\ \E j \in 1..2 : event_queue[j].stop_index > 0

-----------------------------------------------------------------------------
DistinctIds ==
    \A a \in 1..Len(all_requests) : \A b \in 1..Len(all_requests) :
        a # b => all_requests[a].id # all_requests[b].id

(* the request found by the scan for the identifier of member index of ride *)
Lookup(ride, index) == FindById(all_requests, GetDemandId(all_requests, ride, index))

(* C33: the scan for the identifier of a member always finds a request;    *)
(* when the identifiers are pairwise distinct it finds the request stored  *)
(* in the ride at that index, so that the grouper admits or refuses the    *)
(* candidate as the four checks on the stored members do, each ride is     *)
(* scheduled at the timestamp of its stored first member and its line      *)
(* carries that timestamp plus its total duration.                         *)
C33_LookupFindsStoredRequest ==
    /\ [](\A n \in 1..Len(AllRides) :
              \A index \in 0..(GetDemandCount(AllRides[n]) - 1) :
                  /\ Lookup(AllRides[n], index) \in 1..Len(all_requests)
                  /\ DistinctIds =>
                         Lookup(AllRides[n], index) = AllRides[n].requests[index + 1])
    /\ [][(DistinctIds /\ pc = "group" /\ r # NoRide /\ i < Len(all_requests)) =>
              IF FourChecksPass(r, i + 1)
              THEN r' = WithCandidate(r, i + 1) /\ i' = i + 1
              ELSE r' = NoRide /\ i' = i]_vars
    /\ [][(DistinctIds /\ pc = "schedule" /\ k < Len(completed_rides)) =>
              \E j \in 1..Len(event_queue') :
                  event_queue'[j] = NewEvent(FirstTimestamp(k + 1), k + 1, 0)]_vars
    /\ [](DistinctIds =>
              \A j \in 1..Len(output) :
                  output[j].end_time
                      = FirstTimestamp(output[j].ride)
                            + completed_rides[output[j].ride].total_duration)

(* distinct identifiers, and a finished run whose second ride has two      *)
(* members, neither of them the first request of the input                 *)
C33_Witness ==
    /\ DistinctIds
    /\ pc = "done"
    /\ Len(completed_rides) = 2
    /\ completed_rides[2].requests = <<2, 3>>
    /\ Len(output) = 2

=============================================================================
